---- MODULE Spec2Model ----
(***************************************************************************)
(* Model of go-nm/srv: the lifecycle of Server (Run / Shutdown /           *)
(* IsRunning / startServer), the concurrent health aggregation of          *)
(* HealthHandler, the construction of a Server by New with the routes      *)
(* registered through it, and InfoHandler.  Each action is one step of a   *)
(* goroutine between two accesses to memory shared with other goroutines.  *)
(***************************************************************************)
EXTENDS Integers, Sequences, FiniteSets, TLC

\* ------------------------------------------------------------------ bounds
\* Number of Run and Shutdown calls the callers issue on the Server instance.
MaxCalls == 4
\* Number of health checks registered with a HealthHandler.
MaxChecks == 2
\* Number of options passed to New.
MaxOpts == 2
\* Number of routes registered on one Server, the built-in ones included.
MaxRoutes == 5
\* Number of info metrics registered with an InfoHandler.
MaxInfoMetrics == 3

\* --------------------------------------------------------------- constants
\* The nil *http.Server.
Nil == 0

\* stopSignals: the OS signals Run is notified of.
stopSignals == {"SIGHUP", "SIGINT", "SIGQUIT", "SIGTERM"}

\* The signals the process may receive: the stop signals and one other.
Signals == stopSignals \cup {"SIGUSR1"}

ErrServerStopped == "common/server: not running"

ErrServerAlreadyRunning == "common/server: already running"

\* The error startServer sends: "common/server: failed to start server: ...".
ErrListenFailure == "common/server: failed to start server"

\* context.DeadlineExceeded, what http.Server.Shutdown returns when the
\* gracefulTermTimeout context expires before the connections are idle.
ErrDeadlineExceeded == "context deadline exceeded"

\* A nil error.
NoError == "nil"

\* The goroutines that call Run, each one call after the other.
Runs == {1, 2}

\* The goroutines that call Shutdown, each one call after the other.
Shuts == {3}

Threads == Runs \cup Shuts

\* The names health checks are registered under.
Names == {"db", "cache"}

\* The Status strings a check's GetValue returns ("" = none given).
Statuses == {"", "not ok", "awesome"}

\* The Info maps a check's GetValue returns ("nil" = none given).
Infos == {"nil", "info"}

\* HealthMetric with the HealthMetricResult its GetValue returns.
HealthMetrics == [Name : Names, OK : BOOLEAN, Status : Statuses, Info : Infos]

\* No entry under a key of res.Metrics.
NoEntry == [OK |-> TRUE, Status |-> "<absent>", Info |-> "nil"]

\* http.StatusOK and http.StatusInternalServerError.
StatusOK == 200

StatusInternalServerError == 500

VARIABLES
    httpServer,   \* s.httpServer: Nil or the id of an http.Server
    uses,         \* how many times s.Negroni.UseHandler(s.Router) has run
    calls,        \* how many calls of Run and Shutdown have been issued
    pc,           \* pc[t]: position of goroutine t in Run / Shutdown
    target,       \* target[t]: the server t's Shutdown read at line 145
    stop,         \* stop[r]: r's stop channel holds a signal
    bpc,          \* bpc[r]: position of the startServer goroutine of Run r
    bsrv,         \* bsrv[r]: the server r's startServer called ListenAndServe on
    inShutdown,   \* inShutdown[s]: http.Server.Shutdown has been called on s
    busy,         \* busy[s]: s has a request in flight while it is shut down
    cycles,       \* how many times a Shutdown returning nil stopped a running server
    ev,           \* the last step taken: <<step, goroutine or server, error returned>>
    metricsNil,   \* HealthHandler was given a nil *[]HealthMetric
    metrics,      \* *metrics: the registered checks, in registration order
    hpc,          \* position of the handler goroutine of one health request
    launched,     \* how many check goroutines the handler has started
    ranged,       \* the length of the slice the range loop of line 54 iterates
    wg,           \* the WaitGroup counter
    tpc,          \* tpc[i]: position of the goroutine of check i
    data,         \* data[i]: the local variable data of the goroutine of check i
    isOk,         \* the handler's isOk, shared with the check goroutines
    resMetrics,   \* res.Metrics: name -> HealthMetricResult, NoEntry when absent
    resStatus,    \* res.Status
    code,         \* the HTTP status written (0 = none yet)
    opts,         \* the options passed to New
    oi,           \* the index of the option New handles next
    contextPath,  \* srv.contextPath
    routes,       \* srv.routes: the RouteInfo list
    router,       \* the <<method, path>> pairs registered with srv.Router
    panicHandler, \* srv.PanicHandler is set (not nil)
    npc,          \* position of New and of the registrations after it
    infoNil,      \* InfoHandler was given a nil *[]InfoMetric
    infoMetrics,  \* *metrics of InfoHandler, in registration order
    ipc,          \* position of the handler of one info request
    ii,           \* how many info metrics the loop has handled
    respMetrics,  \* resp.Metrics: name -> value, NoValue when absent
    icode         \* the HTTP status the info handler wrote (0 = none yet)

lvars == <<httpServer, uses, calls, pc, target, stop, bpc, bsrv, inShutdown, busy,
           cycles, ev>>

hvars == <<metricsNil, metrics, hpc, launched, ranged, wg, tpc, data, isOk,
           resMetrics, resStatus, code>>

nvars == <<opts, oi, contextPath, routes, router, panicHandler, npc>>

ivars == <<infoNil, infoMetrics, ipc, ii, respMetrics, icode>>

vars == <<lvars, hvars, nvars, ivars>>

\* The server object the Run call of r allocates at line 113.  The object of
\* r's previous call is no longer referenced when r calls Run again (RunGuard).
NewServer(r) == r

\* IsRunning tells if the server is currently running.
IsRunning == httpServer # Nil

\* A startServer goroutine holds an open listener: it is inside Serve and the
\* server it serves has not closed its listeners.
Listening(r) == bpc[r] = "serving" /\ ~inShutdown[bsrv[r]]

\* The startServer goroutines that have been started and have not ended.
BgAlive == {r \in Runs : bpc[r] \in {"start", "serving", "sending"}}

\* A nil-pointer dereference is an unrecovered panic: the process ends.
Crashed == (\E t \in Threads : pc[t] = "panic") \/ (\E r \in Runs : bpc[r] = "panic")

\* The process is alive, and a step of the lifecycle leaves the variables of
\* the handlers and of New alone.
Live == ~Crashed /\ UNCHANGED <<hvars, nvars, ivars>>

\* The http.Server of r's previous Run call is garbage: s.httpServer, the
\* Shutdown calls in progress and the startServer goroutines do not hold it.
Unreferenced(s) ==
    /\ httpServer # s
    /\ \A t \in Threads : target[t] # s
    /\ \A q \in Runs : bsrv[q] # s
    /\ ~busy[s]

\* New, lines 54-79: the Server after construction.
LInit ==
    /\ httpServer = Nil
    /\ uses = 0
    /\ calls = 0
    /\ pc = [t \in Threads |-> "idle"]
    /\ target = [t \in Threads |-> Nil]
    /\ stop = [r \in Runs |-> FALSE]
    /\ bpc = [r \in Runs |-> "none"]
    /\ bsrv = [r \in Runs |-> Nil]
    /\ inShutdown = [s \in Runs |-> FALSE]
    /\ busy = [s \in Runs |-> FALSE]
    /\ cycles = 0
    /\ ev = <<"New", Nil, "">>

\* ---------------------------------------------------------------- Run
\* RunGuard without the guard of line 107: Run always goes on.
RunGuard_Unguarded(r) ==
    /\ Live
    /\ pc[r] = "idle"
    /\ calls < MaxCalls
    /\ bpc[r] \in {"none", "sending"}
    /\ Unreferenced(NewServer(r))
    /\ calls' = calls + 1
    /\ pc' = [pc EXCEPT ![r] = "install"]
    /\ ev' = <<"Run", r, "">>
    /\ UNCHANGED <<httpServer, uses, target, stop, bpc, bsrv, inShutdown, busy, cycles>>

\* Run, lines 105-109: a caller calls Run, which starts with the guard on
\* s.httpServer.
RunGuard(r) ==
    /\ Live
    /\ pc[r] = "idle"
    /\ calls < MaxCalls
    /\ bpc[r] \in {"none", "sending"}
    /\ Unreferenced(NewServer(r))
    /\ calls' = calls + 1
    /\ IF httpServer # Nil
         THEN /\ pc' = pc
              /\ ev' = <<"Run", r, ErrServerAlreadyRunning>>
         ELSE /\ pc' = [pc EXCEPT ![r] = "install"]
              /\ ev' = <<"Run", r, "">>
    /\ UNCHANGED <<httpServer, uses, target, stop, bpc, bsrv, inShutdown, busy, cycles>>

\* Run, lines 111-121: attach the router, store the new http.Server, start
\* startServer in a goroutine and register the stop channel.
RunInstall(r) ==
    /\ Live
    /\ pc[r] = "install"
    /\ uses' = uses + 1
    /\ httpServer' = NewServer(r)
    /\ inShutdown' = [inShutdown EXCEPT ![NewServer(r)] = FALSE]
    /\ bpc' = [bpc EXCEPT ![r] = "start"]
    /\ pc' = [pc EXCEPT ![r] = "select"]
    /\ ev' = <<"RunInstall", r, "">>
    /\ UNCHANGED <<calls, target, stop, bsrv, busy, cycles>>

\* ShutdownGuard without the guard of line 135: Shutdown always goes on.
ShutdownGuard_Unguarded(t) ==
    /\ pc' = [pc EXCEPT ![t] = "sd_drain"]
    /\ ev' = <<"Shutdown", t, "">>
    /\ UNCHANGED <<httpServer, uses, target, bpc, bsrv, inShutdown, busy, cycles>>

\* Shutdown, lines 134-137: the guard on s.httpServer.
ShutdownGuard(t) ==
    /\ IF httpServer = Nil
         THEN /\ pc' = [pc EXCEPT ![t] = "idle"]
              /\ ev' = <<"Shutdown", t, ErrServerStopped>>
         ELSE /\ pc' = [pc EXCEPT ![t] = "sd_drain"]
              /\ ev' = <<"Shutdown", t, "">>
    /\ UNCHANGED <<httpServer, uses, target, bpc, bsrv, inShutdown, busy, cycles>>

\* RunSelectStop returning nil on a signal without calling Shutdown.
RunSelectStop_NoShutdown(r) ==
    /\ Live
    /\ pc[r] = "select"
    /\ stop[r]
    /\ stop' = [stop EXCEPT ![r] = FALSE]
    /\ pc' = [pc EXCEPT ![r] = "idle"]
    /\ ev' = <<"Shutdown", r, NoError>>
    /\ UNCHANGED <<httpServer, uses, calls, target, bpc, bsrv, inShutdown, busy,
                   cycles>>

\* Run, lines 124-126: the select receives from stop and calls Shutdown.
RunSelectStop(r) ==
    /\ Live
    /\ pc[r] = "select"
    /\ stop[r]
    /\ stop' = [stop EXCEPT ![r] = FALSE]
    /\ calls' = calls
    /\ ShutdownGuard(r)

\* Run, lines 128-129: the select receives the error startServer sends.
RunSelectErr(r) ==
    /\ Live
    /\ pc[r] = "select"
    /\ bpc[r] = "sending"
    /\ bpc' = [bpc EXCEPT ![r] = "none"]
    /\ pc' = [pc EXCEPT ![r] = "idle"]
    /\ stop' = [stop EXCEPT ![r] = FALSE]
    /\ ev' = <<"RunErr", r, ErrListenFailure>>
    /\ UNCHANGED <<httpServer, uses, calls, target, bsrv, inShutdown, busy, cycles>>

\* ---------------------------------------------------------------- Shutdown
\* A caller calls Shutdown, lines 134-137.
ShutdownCall(x) ==
    /\ Live
    /\ pc[x] = "idle"
    /\ calls < MaxCalls
    /\ calls' = calls + 1
    /\ stop' = stop
    /\ ShutdownGuard(x)

\* Shutdown, line 145: s.httpServer is read again and http.Server.Shutdown is
\* called on it: the server stops accepting (its listeners are closed) and the
\* call waits for the connections to become idle.  A server that has been
\* serving may have a request in flight at that moment.  A nil s.httpServer
\* is a nil-pointer dereference.
ShutdownDrain(t) ==
    /\ Live
    /\ pc[t] = "sd_drain"
    /\ IF httpServer = Nil
         THEN /\ pc' = [pc EXCEPT ![t] = "panic"]
              /\ UNCHANGED <<target, inShutdown, busy>>
         ELSE /\ pc' = [pc EXCEPT ![t] = "sd_wait"]
              /\ target' = [target EXCEPT ![t] = httpServer]
              /\ inShutdown' = [inShutdown EXCEPT ![httpServer] = TRUE]
              /\ \/ busy' = busy
                 \/ /\ \E r \in Runs : Listening(r) /\ bsrv[r] = httpServer
                    /\ busy' = [busy EXCEPT ![httpServer] = TRUE]
    /\ ev' = <<"ShutdownDrain", t, "">>
    /\ UNCHANGED <<httpServer, uses, calls, stop, bpc, bsrv, cycles>>

\* ShutdownFinish without the reset of line 146.
ShutdownFinish_NoReset(t) ==
    /\ Live
    /\ pc[t] = "sd_wait"
    /\ ev' = <<"ShutdownFinish", t,
              IF busy[target[t]] THEN ErrDeadlineExceeded ELSE NoError>>
    /\ pc' = [pc EXCEPT ![t] = "idle"]
    /\ target' = [target EXCEPT ![t] = Nil]
    /\ UNCHANGED <<httpServer, uses, calls, stop, bpc, bsrv, inShutdown, busy,
                   cycles>>

\* ShutdownFinish resetting s.httpServer only when the drain was clean.
ShutdownFinish_KeepOnTimeout(t) ==
    /\ Live
    /\ pc[t] = "sd_wait"
    /\ ev' = <<"ShutdownFinish", t,
              IF busy[target[t]] THEN ErrDeadlineExceeded ELSE NoError>>
    /\ httpServer' = IF busy[target[t]] THEN httpServer ELSE Nil
    /\ pc' = [pc EXCEPT ![t] = "idle"]
    /\ target' = [target EXCEPT ![t] = Nil]
    /\ UNCHANGED <<uses, calls, stop, bpc, bsrv, inShutdown, busy, cycles>>

\* Shutdown, lines 145-147: http.Server.Shutdown returns nil once no request
\* is in flight, or the context's error when the deadline passes first; then
\* s.httpServer is reset and the error returned.
ShutdownFinish(t) ==
    /\ Live
    /\ pc[t] = "sd_wait"
    /\ ev' = <<"ShutdownFinish", t,
              IF busy[target[t]] THEN ErrDeadlineExceeded ELSE NoError>>
    /\ httpServer' = Nil
    /\ pc' = [pc EXCEPT ![t] = "idle"]
    /\ target' = [target EXCEPT ![t] = Nil]
    /\ cycles' = IF IsRunning /\ ~busy[target[t]] THEN cycles + 1 ELSE cycles
    /\ UNCHANGED <<uses, calls, stop, bpc, bsrv, inShutdown, busy>>

\* ---------------------------------------------------------------- startServer
\* StartServerListen without the reset of line 163 on a listen error.
StartServerListen_NoReset(r) ==
    /\ Live
    /\ bpc[r] = "start"
    /\ IF httpServer = Nil
         THEN /\ bpc' = [bpc EXCEPT ![r] = "panic"]
              /\ ev' = <<"startServer", r, "">>
              /\ bsrv' = bsrv
         ELSE IF inShutdown[httpServer]
                THEN /\ bpc' = [bpc EXCEPT ![r] = "none"]
                     /\ ev' = <<"startServer", r, "">>
                     /\ bsrv' = bsrv
                ELSE \/ /\ bpc' = [bpc EXCEPT ![r] = "sending"]
                        /\ bsrv' = bsrv
                        /\ ev' = <<"startServer", r, ErrListenFailure>>
                     \/ /\ bpc' = [bpc EXCEPT ![r] = "serving"]
                        /\ bsrv' = [bsrv EXCEPT ![r] = httpServer]
                        /\ ev' = <<"startServer", r, "">>
    /\ UNCHANGED <<httpServer, uses, calls, pc, target, stop, inShutdown, busy, cycles>>

\* startServer, lines 158-164: s.httpServer is read (a nil one is a
\* nil-pointer dereference) and ListenAndServe is called on it.
\* ListenAndServe returns ErrServerClosed at once on a server that is
\* shutting down, and startServer ends without sending; otherwise it binds
\* the address.  The bind fails when the address is in use, and then
\* s.httpServer is reset and the error offered on the unbuffered errChan;
\* when it succeeds the goroutine serves.
StartServerListen(r) ==
    /\ Live
    /\ bpc[r] = "start"
    /\ IF httpServer = Nil
         THEN /\ bpc' = [bpc EXCEPT ![r] = "panic"]
              /\ ev' = <<"startServer", r, "">>
              /\ UNCHANGED <<bsrv, httpServer>>
         ELSE IF inShutdown[httpServer]
                THEN /\ bpc' = [bpc EXCEPT ![r] = "none"]
                     /\ ev' = <<"startServer", r, "">>
                     /\ UNCHANGED <<bsrv, httpServer>>
                ELSE \/ /\ bpc' = [bpc EXCEPT ![r] = "sending"]
                        /\ httpServer' = Nil
                        /\ bsrv' = bsrv
                        /\ ev' = <<"startServer", r, ErrListenFailure>>
                     \/ /\ bpc' = [bpc EXCEPT ![r] = "serving"]
                        /\ bsrv' = [bsrv EXCEPT ![r] = httpServer]
                        /\ httpServer' = httpServer
                        /\ ev' = <<"startServer", r, "">>
    /\ UNCHANGED <<uses, calls, pc, target, stop, inShutdown, busy, cycles>>

\* startServer, lines 159-162: Serve returns ErrServerClosed after the server
\* was shut down, and startServer ends without sending on errChan.
StartServerClosed(r) ==
    /\ Live
    /\ bpc[r] = "serving"
    /\ inShutdown[bsrv[r]]
    /\ bpc' = [bpc EXCEPT ![r] = "none"]
    /\ bsrv' = [bsrv EXCEPT ![r] = Nil]
    /\ ev' = <<"startServerClosed", r, "">>
    /\ UNCHANGED <<httpServer, uses, calls, pc, target, stop, inShutdown, busy, cycles>>

\* ---------------------------------------------------------------- environment
\* The process receives a signal: signal.Notify passes a stop signal to the
\* stop channel (capacity 1) of every Run call waiting in select.
Signal(sig) ==
    /\ Live
    /\ sig \in stopSignals
    /\ \E r \in Runs : pc[r] = "select" /\ ~stop[r]
    /\ stop' = [r \in Runs |-> stop[r] \/ pc[r] = "select"]
    /\ ev' = <<"Signal", Nil, sig>>
    /\ UNCHANGED <<httpServer, uses, calls, pc, target, bpc, bsrv, inShutdown,
                   busy, cycles>>

\* The in-flight request of server s completes.
RequestEnd(s) ==
    /\ Live
    /\ busy[s]
    /\ busy' = [busy EXCEPT ![s] = FALSE]
    /\ ev' = <<"RequestEnd", s, "">>
    /\ UNCHANGED <<httpServer, uses, calls, pc, target, stop, bpc, bsrv,
                   inShutdown, cycles>>

Next ==
    \/ \E r \in Runs : RunGuard(r)
    \/ \E r \in Runs : RunInstall(r)
    \/ \E r \in Runs : RunSelectStop(r)
    \/ \E r \in Runs : RunSelectErr(r)
    \/ \E x \in Shuts : ShutdownCall(x)
    \/ \E t \in Threads : ShutdownDrain(t)
    \/ \E t \in Threads : ShutdownFinish(t)
    \/ \E r \in Runs : StartServerListen(r)
    \/ \E r \in Runs : StartServerClosed(r)
    \/ \E sig \in Signals : Signal(sig)
    \/ \E s \in Runs : RequestEnd(s)

\* Run, lines 105-109, called while no other Run call is between its guard
\* and its store of s.httpServer: the callers do not call Run concurrently.
RunGuardAlone(r) ==
    /\ \A q \in Runs : pc[q] # "install"
    /\ RunGuard(r)

\* The steps of the lifecycle when the callers do not call Run concurrently
\* (Shutdown calls and signals come at any moment).
RestartNext ==
    \/ \E r \in Runs : RunGuardAlone(r)
    \/ \E r \in Runs : RunInstall(r)
    \/ \E r \in Runs : RunSelectStop(r)
    \/ \E r \in Runs : RunSelectErr(r)
    \/ \E x \in Shuts : ShutdownCall(x)
    \/ \E t \in Threads : ShutdownDrain(t)
    \/ \E t \in Threads : ShutdownFinish(t)
    \/ \E r \in Runs : StartServerListen(r)
    \/ \E r \in Runs : StartServerClosed(r)
    \/ \E sig \in Signals : Signal(sig)
    \/ \E s \in Runs : RequestEnd(s)

\* ---------------------------------------------------------------- HealthHandler
Checks == 1..MaxChecks

\* No health request is being served.
HIdle ==
    /\ metricsNil = TRUE
    /\ metrics = <<>>
    /\ hpc = "idle"
    /\ launched = 0
    /\ ranged = 0
    /\ wg = 0
    /\ tpc = [i \in Checks |-> "none"]
    /\ data = [i \in Checks |-> NoEntry]
    /\ isOk = TRUE
    /\ resMetrics = [n \in Names |-> NoEntry]
    /\ resStatus = ""
    /\ code = 0

\* A request reaches a handler built by HealthHandler(metrics): metrics is nil
\* or points to a slice of up to MaxChecks checks.
HInit ==
    /\ metricsNil \in BOOLEAN
    /\ metrics \in UNION {[1..n -> HealthMetrics] : n \in 0..MaxChecks}
    /\ metricsNil => metrics = <<>>
    /\ hpc = "start"
    /\ launched = 0
    /\ ranged = 0
    /\ wg = 0
    /\ tpc = [i \in Checks |-> "none"]
    /\ data = [i \in Checks |-> NoEntry]
    /\ isOk = TRUE
    /\ resMetrics = [n \in Names |-> NoEntry]
    /\ resStatus = ""
    /\ code = 0

\* The runtime's fatal error or a panic in a check goroutine ended the
\* process.
HealthFatal == \E i \in Checks : tpc[i] \in {"fatal", "panic"}

\* The process is alive, and a step of the health request leaves the other
\* variables alone.
HLive == ~HealthFatal /\ UNCHANGED <<lvars, nvars, ivars>>

\* HealthBegin starting from isOk = false when there is no check to clear it.
HealthBegin_EmptyFails ==
    /\ HLive
    /\ hpc = "start"
    /\ isOk' = (Len(metrics) > 0)
    /\ wg' = IF metricsNil THEN 0 ELSE Len(metrics)
    /\ hpc' = IF metricsNil THEN "respond" ELSE "range"
    /\ UNCHANGED <<metricsNil, metrics, launched, ranged, tpc, data, resMetrics,
                   resStatus, code>>

\* HealthHandler, lines 45-52: res, isOk, and for non-nil metrics the empty
\* map and wg.Add(len(*metrics)).
HealthBegin ==
    /\ HLive
    /\ hpc = "start"
    /\ isOk' = TRUE
    /\ wg' = IF metricsNil THEN 0 ELSE Len(metrics)
    /\ hpc' = IF metricsNil THEN "respond" ELSE "range"
    /\ UNCHANGED <<metricsNil, metrics, launched, ranged, tpc, data, resMetrics,
                   resStatus, code>>

\* HealthHandler, line 54: the range clause reads the slice *metrics, once.
HealthRange ==
    /\ HLive
    /\ hpc = "range"
    /\ ranged' = Len(metrics)
    /\ hpc' = "launch"
    /\ UNCHANGED <<metricsNil, metrics, launched, wg, tpc, data, isOk, resMetrics,
                   resStatus, code>>

\* HealthHandler, lines 54-55 and 70: the loop starts the goroutine of the
\* next check.
HealthLaunch ==
    /\ HLive
    /\ hpc = "launch"
    /\ launched < ranged
    /\ launched' = launched + 1
    /\ tpc' = [tpc EXCEPT ![launched + 1] = "call"]
    /\ UNCHANGED <<metricsNil, metrics, hpc, ranged, wg, data, isOk, resMetrics,
                   resStatus, code>>

\* HealthHandler, line 73: the loop is over and wg.Wait() returns once the
\* counter is zero.
HealthWait ==
    /\ HLive
    /\ hpc = "launch"
    /\ launched = ranged
    /\ wg = 0
    /\ hpc' = "respond"
    /\ UNCHANGED <<metricsNil, metrics, launched, ranged, wg, tpc, data, isOk,
                   resMetrics, resStatus, code>>

\* Normalize giving every failing result the Status "not ok".
Normalize_FailingOverride(d) ==
    IF d.OK /\ d.Status = "" THEN [d EXCEPT !.Status = "ok"]
    ELSE IF ~d.OK THEN [d EXCEPT !.Status = "not ok"]
    ELSE d

\* HealthHandler, lines 57-63: the check's callback is called and the Status
\* of its result normalised.
Normalize(d) ==
    IF d.OK /\ d.Status = "" THEN [d EXCEPT !.Status = "ok"]
    ELSE IF ~d.OK /\ d.Status = "" THEN [d EXCEPT !.Status = "not ok"]
    ELSE d

CheckCall(i) ==
    /\ HLive
    /\ tpc[i] = "call"
    /\ data' = [data EXCEPT ![i] =
                  Normalize([OK |-> metrics[i].OK, Status |-> metrics[i].Status,
                             Info |-> metrics[i].Info])]
    /\ tpc' = [tpc EXCEPT ![i] = "flag"]
    /\ UNCHANGED <<metricsNil, metrics, hpc, launched, ranged, wg, isOk,
                   resMetrics, resStatus, code>>

\* CheckFlag deciding on the result's Status string instead of its OK.
CheckFlag_ByStatus(i) ==
    /\ HLive
    /\ tpc[i] = "flag"
    /\ isOk' = IF data[i].Status = "not ok" THEN FALSE ELSE isOk
    /\ tpc' = [tpc EXCEPT ![i] = "store"]
    /\ UNCHANGED <<metricsNil, metrics, hpc, launched, ranged, wg, data,
                   resMetrics, resStatus, code>>

\* HealthHandler, lines 65-67: a failing check clears the shared isOk.
CheckFlag(i) ==
    /\ HLive
    /\ tpc[i] = "flag"
    /\ isOk' = IF ~data[i].OK THEN FALSE ELSE isOk
    /\ tpc' = [tpc EXCEPT ![i] = "store"]
    /\ UNCHANGED <<metricsNil, metrics, hpc, launched, ranged, wg, data,
                   resMetrics, resStatus, code>>

\* HealthHandler, line 69: the map assignment begins.  The runtime ends the
\* process with "concurrent map writes" when it sees another goroutine inside
\* an assignment to the same map; the detection is best effort.
CheckStore(i) ==
    /\ HLive
    /\ tpc[i] = "store"
    /\ \/ tpc' = [tpc EXCEPT ![i] = "storing"]
       \/ /\ \E j \in Checks : tpc[j] = "storing"
          /\ tpc' = [tpc EXCEPT ![i] = "fatal"]
    /\ UNCHANGED <<metricsNil, metrics, hpc, launched, ranged, wg, data, isOk,
                   resMetrics, resStatus, code>>

\* HealthHandler, lines 69 and 56: the entry is stored under the check's name
\* and the deferred wg.Done() runs; Done panics ("sync: negative WaitGroup
\* counter") when the counter is zero already.
CheckDone(i) ==
    /\ HLive
    /\ tpc[i] = "storing"
    /\ resMetrics' = [resMetrics EXCEPT ![metrics[i].Name] = data[i]]
    /\ IF wg > 0
         THEN wg' = wg - 1 /\ tpc' = [tpc EXCEPT ![i] = "done"]
         ELSE wg' = wg /\ tpc' = [tpc EXCEPT ![i] = "panic"]
    /\ UNCHANGED <<metricsNil, metrics, hpc, launched, ranged, data, isOk,
                   resStatus, code>>

\* HealthHandler, lines 76-82: the response is written.
HealthRespond ==
    /\ HLive
    /\ hpc = "respond"
    /\ IF ~isOk
         THEN resStatus' = "not ok" /\ code' = StatusInternalServerError
         ELSE resStatus' = "ok" /\ code' = StatusOK
    /\ hpc' = "done"
    /\ UNCHANGED <<metricsNil, metrics, launched, ranged, wg, tpc, data, isOk,
                   resMetrics>>

HNext ==
    \/ HealthBegin
    \/ HealthRange
    \/ HealthLaunch
    \/ HealthWait
    \/ \E i \in Checks : CheckCall(i)
    \/ \E i \in Checks : CheckFlag(i)
    \/ \E i \in Checks : CheckStore(i)
    \/ \E i \in Checks : CheckDone(i)
    \/ HealthRespond

\* Server.AddReadinessCheck (and AddLivenessCheck), lines 85-96: a check is
\* appended to the registry the handler points to while the request is in
\* flight.
AddReadinessCheck(m) ==
    /\ HLive
    /\ ~metricsNil
    /\ hpc # "done"
    /\ Len(metrics) < MaxChecks
    /\ metrics' = Append(metrics, m)
    /\ UNCHANGED <<metricsNil, hpc, launched, ranged, wg, tpc, data, isOk,
                   resMetrics, resStatus, code>>

\* The steps of a health request and of the registrations concurrent with it.
RegistryNext ==
    \/ HealthBegin
    \/ HealthRange
    \/ HealthLaunch
    \/ HealthWait
    \/ \E i \in Checks : CheckCall(i)
    \/ \E i \in Checks : CheckFlag(i)
    \/ \E i \in Checks : CheckStore(i)
    \/ \E i \in Checks : CheckDone(i)
    \/ HealthRespond
    \/ \E m \in HealthMetrics : AddReadinessCheck(m)

\* ---------------------------------------------------------------- New
\* Strings are sequences of tokens: "/" and slash-free pieces.
Slash == <<"/">>

\* The option names, in the order of their iota.
optionContextPath == 0

optionAppEnv == 1

\* The values given to OptionContextPath.
ContextPaths == {<<>>, <<"/", "api">>, <<"/", "api", "/">>}

\* The values given to OptionAppEnv.
AppEnvs == {<<"dev">>, <<"test">>, <<"prod">>}

\* OptionContextPath(path) and OptionAppEnv(envName).
OptionContextPath(path) == [name |-> optionContextPath, value |-> path]

OptionAppEnv(envName) == [name |-> optionAppEnv, value |-> envName]

Options ==
    {OptionContextPath(p) : p \in ContextPaths} \cup {OptionAppEnv(e) : e \in AppEnvs}

\* The paths of the built-in endpoints.
RoutesPath == <<"/", "_system", "/", "routes">>

ReadinessPath == <<"/", "_system", "/", "readiness">>

LivenessPath == <<"/", "_system", "/", "liveness">>

InfoPath == <<"/", "_system", "/", "info">>

\* The methods and paths callers register through the Server.
Methods == {"GET", "POST"}

FacadePaths == {<<"/", "x">>}

\* strings.TrimSuffix(s, suffix).
TrimSuffix(s, suffix) ==
    IF /\ Len(s) >= Len(suffix)
       /\ SubSeq(s, Len(s) - Len(suffix) + 1, Len(s)) = suffix
      THEN SubSeq(s, 1, Len(s) - Len(suffix))
      ELSE s

\* The body of Server.Handle, lines 171-172, on the state st of the route
\* list and the router with the context path cp: the RouteInfo is appended
\* and the route handed to the router, which panics (ok = FALSE) when the
\* method and path are registered already.
Register(st, cp, method, path) ==
    [routes |-> Append(st.routes, [Method |-> method, Path |-> cp \o path]),
     router |-> st.router \cup {<<method, cp \o path>>},
     ok     |-> st.ok /\ <<method, cp \o path>> \notin st.router]

\* New(), lines 54-79 without options, has returned.
NIdle ==
    /\ opts = <<>>
    /\ oi = 1
    /\ contextPath = <<>>
    /\ routes = <<[Method |-> "GET", Path |-> ReadinessPath],
                  [Method |-> "GET", Path |-> LivenessPath],
                  [Method |-> "GET", Path |-> InfoPath]>>
    /\ router = {<<"GET", ReadinessPath>>, <<"GET", LivenessPath>>, <<"GET", InfoPath>>}
    /\ panicHandler = TRUE
    /\ npc = "ready"

\* New, lines 54-60: New is called with up to MaxOpts options; the Server has
\* an empty router and the PanicHandler.
NInit ==
    /\ opts \in UNION {[1..n -> Options] : n \in 0..MaxOpts}
    /\ oi = 1
    /\ contextPath = <<>>
    /\ routes = <<>>
    /\ router = {}
    /\ panicHandler = TRUE
    /\ npc = "opts"

\* A panic of the router has not ended New or a registration, and a step of
\* New leaves the other variables alone.
NLive == npc # "panic" /\ UNCHANGED <<lvars, hvars, ivars>>

\* NewOption with the routes endpoint and the nil PanicHandler for "dev" only.
NewOption_DevOnly ==
    /\ NLive
    /\ npc = "opts"
    /\ oi <= Len(opts)
    /\ oi' = oi + 1
    /\ opts' = opts
    /\ IF opts[oi].name = optionContextPath
         THEN /\ contextPath' = TrimSuffix(opts[oi].value, Slash)
              /\ UNCHANGED <<routes, router, panicHandler, npc>>
         ELSE IF opts[oi].value = <<"dev">>
                THEN LET st == Register([routes |-> routes, router |-> router,
                                         ok |-> TRUE], contextPath, "GET", RoutesPath)
                     IN  /\ routes' = st.routes
                         /\ router' = st.router
                         /\ panicHandler' = FALSE
                         /\ npc' = IF st.ok THEN "opts" ELSE "panic"
                         /\ contextPath' = contextPath
                ELSE UNCHANGED <<contextPath, routes, router, panicHandler, npc>>

\* New, lines 62-72: the next option is handled.  A context path is stored
\* with one trailing "/" trimmed; an appEnv of "dev" or "test" registers the
\* routes endpoint, with the context path as it is at that moment, and sets
\* the PanicHandler to nil.
NewOption ==
    /\ NLive
    /\ npc = "opts"
    /\ oi <= Len(opts)
    /\ oi' = oi + 1
    /\ opts' = opts
    /\ IF opts[oi].name = optionContextPath
         THEN /\ contextPath' = TrimSuffix(opts[oi].value, Slash)
              /\ UNCHANGED <<routes, router, panicHandler, npc>>
         ELSE IF opts[oi].value = <<"dev">> \/ opts[oi].value = <<"test">>
                THEN LET st == Register([routes |-> routes, router |-> router,
                                         ok |-> TRUE], contextPath, "GET", RoutesPath)
                     IN  /\ routes' = st.routes
                         /\ router' = st.router
                         /\ panicHandler' = FALSE
                         /\ npc' = IF st.ok THEN "opts" ELSE "panic"
                         /\ contextPath' = contextPath
                ELSE UNCHANGED <<contextPath, routes, router, panicHandler, npc>>

\* New, lines 74-78: the options are done; readiness, liveness and info are
\* registered and the Server returned.
NewBuiltins ==
    /\ NLive
    /\ npc = "opts"
    /\ oi > Len(opts)
    /\ LET s0 == [routes |-> routes, router |-> router, ok |-> TRUE]
           s1 == Register(s0, contextPath, "GET", ReadinessPath)
           s2 == Register(s1, contextPath, "GET", LivenessPath)
           s3 == Register(s2, contextPath, "GET", InfoPath)
       IN  /\ routes' = s3.routes
           /\ router' = s3.router
           /\ npc' = IF s3.ok THEN "ready" ELSE "panic"
    /\ UNCHANGED <<opts, oi, contextPath, panicHandler>>

\* Server.Handle, lines 170-173 (and GET, POST, ... that call it): a caller
\* registers a route on the Server New returned.
Handle(method, path) ==
    /\ NLive
    /\ npc = "ready"
    /\ Len(routes) < MaxRoutes
    /\ LET st == Register([routes |-> routes, router |-> router, ok |-> TRUE],
                          contextPath, method, path)
       IN  /\ routes' = st.routes
           /\ router' = st.router
           /\ npc' = IF st.ok THEN "ready" ELSE "panic"
    /\ UNCHANGED <<opts, oi, contextPath, panicHandler>>

NNext ==
    \/ NewOption
    \/ NewBuiltins
    \/ \E method \in Methods, path \in FacadePaths : Handle(method, path)

\* ---------------------------------------------------------------- InfoHandler
\* The values an info metric's GetValue returns.
InfoValues == {"v1", "v2"}

\* InfoMetric with the value its GetValue returns.
InfoMetrics == [Name : Names, Value : InfoValues]

\* No entry under a key of resp.Metrics.
NoValue == "<absent>"

\* No info request is being served.
IIdle ==
    /\ infoNil = TRUE
    /\ infoMetrics = <<>>
    /\ ipc = "idle"
    /\ ii = 0
    /\ respMetrics = [n \in Names |-> NoValue]
    /\ icode = 0

\* A request reaches a handler built by InfoHandler(metrics): metrics is nil
\* or points to a slice of up to MaxInfoMetrics info metrics.
IInit ==
    /\ infoNil \in BOOLEAN
    /\ infoMetrics \in UNION {[1..n -> InfoMetrics] : n \in 0..MaxInfoMetrics}
    /\ infoNil => infoMetrics = <<>>
    /\ ipc = "start"
    /\ ii = 0
    /\ respMetrics = [n \in Names |-> NoValue]
    /\ icode = 0

\* A step of the info request leaves the other variables alone.
ILive == UNCHANGED <<lvars, hvars, nvars>>

\* InfoHandler, lines 122-138: the runtime statistics are read and resp is
\* built with an empty Metrics map.
InfoBegin ==
    /\ ILive
    /\ ipc = "start"
    /\ respMetrics' = [n \in Names |-> NoValue]
    /\ ipc' = "range"
    /\ UNCHANGED <<infoNil, infoMetrics, ii, icode>>

\* InfoHandler, line 140: the range expression *metrics is evaluated; a nil
\* metrics is a nil-pointer dereference, and the handler panics.
InfoRange ==
    /\ ILive
    /\ ipc = "range"
    /\ ipc' = IF infoNil THEN "panic" ELSE "loop"
    /\ UNCHANGED <<infoNil, infoMetrics, ii, respMetrics, icode>>

\* InfoHandler, lines 140-142: the next metric's value is stored under its
\* name.
InfoStep ==
    /\ ILive
    /\ ipc = "loop"
    /\ ii < Len(infoMetrics)
    /\ respMetrics' = [respMetrics EXCEPT ![infoMetrics[ii + 1].Name] =
                                             infoMetrics[ii + 1].Value]
    /\ ii' = ii + 1
    /\ UNCHANGED <<infoNil, infoMetrics, ipc, icode>>

\* InfoHandler, line 144: the loop is over and the response is written.
InfoRespond ==
    /\ ILive
    /\ ipc = "loop"
    /\ ii = Len(infoMetrics)
    /\ icode' = StatusOK
    /\ ipc' = "done"
    /\ UNCHANGED <<infoNil, infoMetrics, ii, respMetrics>>

INext ==
    \/ InfoBegin
    \/ InfoRange
    \/ InfoStep
    \/ InfoRespond

\* ---------------------------------------------------------------- specifications
Init == LInit /\ HIdle /\ NIdle /\ IIdle

\* The lifecycle of one Server instance.
Spec == Init /\ [][Next]_vars

\* The goroutines of the program are scheduled fairly; callers and signals
\* are not obliged to act.
Fairness ==
    /\ \A r \in Runs : WF_vars(RunInstall(r))
    /\ \A r \in Runs : WF_vars(RunSelectStop(r))
    /\ \A r \in Runs : WF_vars(RunSelectErr(r))
    /\ \A t \in Threads : WF_vars(ShutdownDrain(t))
    /\ \A t \in Threads : WF_vars(ShutdownFinish(t))
    /\ \A r \in Runs : WF_vars(StartServerListen(r))
    /\ \A r \in Runs : WF_vars(StartServerClosed(r))

FairSpec == Init /\ [][Next]_vars /\ Fairness

\* The lifecycle of one Server instance whose callers do not call Run
\* concurrently.
RestartSpec == Init /\ [][RestartNext]_vars

\* One request served by a HealthHandler.
HealthInit == LInit /\ HInit /\ NIdle /\ IIdle

HealthSpec == HealthInit /\ [][HNext]_vars

\* The goroutines of a health request are scheduled fairly.
HealthFairness ==
    /\ WF_vars(HealthBegin)
    /\ WF_vars(HealthRange)
    /\ WF_vars(HealthLaunch)
    /\ WF_vars(HealthWait)
    /\ WF_vars(HealthRespond)
    /\ \A i \in Checks : WF_vars(CheckCall(i))
    /\ \A i \in Checks : WF_vars(CheckFlag(i))
    /\ \A i \in Checks : WF_vars(CheckStore(i))
    /\ \A i \in Checks : WF_vars(CheckDone(i))

HealthFairSpec == HealthInit /\ [][HNext]_vars /\ HealthFairness

\* One request served by a HealthHandler while checks are being registered.
RegistrySpec == HealthInit /\ [][RegistryNext]_vars

\* New called with a list of options, and the routes registered afterwards.
NewInit == LInit /\ HIdle /\ NInit /\ IIdle

NewSpec == NewInit /\ [][NNext]_vars

\* One request served by an InfoHandler.
InfoInit == LInit /\ HIdle /\ NIdle /\ IInit

InfoSpec == InfoInit /\ [][INext]_vars

\* ---------------------------------------------------------------- properties
\* C1: a Run call on an instance that is Running returns
\* ErrServerAlreadyRunning and changes nothing: s.httpServer stays the same
\* server, no startServer goroutine is started, no handler is attached.
C1_RunWhileRunning ==
    [][\A r \in Runs :
         (ev'[1] = "Run" /\ ev'[2] = r /\ IsRunning) =>
             /\ ev'[3] = ErrServerAlreadyRunning
             /\ UNCHANGED <<httpServer, uses, pc, target, stop, bpc, bsrv,
                            inShutdown, busy, cycles>>]_vars

\* A Run call has just been refused on a server that is listening.
C1_Witness ==
    /\ ev[1] = "Run"
    /\ ev[3] = ErrServerAlreadyRunning
    /\ IsRunning
    /\ \E q \in Runs : Listening(q) /\ bsrv[q] = httpServer

\* C2: of two Run calls issued concurrently on a Stopped instance only one
\* passes the guard and starts a listener; the instance never has two open
\* listeners.
C2_OneRunStarts ==
    /\ Cardinality({r \in Runs : pc[r] = "install"}) <= 1
    /\ Cardinality({r \in Runs : Listening(r)}) <= 1

\* C3: a Shutdown call on an instance that is Stopped returns
\* ErrServerStopped, starts no drain, and leaves the instance Stopped.
C3_ShutdownWhileStopped ==
    [][\A t \in Threads :
         (ev'[1] = "Shutdown" /\ ev'[2] = t /\ ~IsRunning) =>
             /\ ev'[3] = ErrServerStopped
             /\ pc'[t] = "idle"
             /\ UNCHANGED <<httpServer, uses, target, bpc, bsrv, inShutdown,
                            busy, cycles>>]_vars

\* A Shutdown call has just been refused on a server that was started and
\* shut down before.
C3_Witness ==
    /\ ev[1] = "Shutdown"
    /\ ev[3] = ErrServerStopped
    /\ ev[2] \in Shuts
    /\ cycles > 0
    /\ ~IsRunning

\* C4: a Shutdown that returns nil leaves IsRunning() false; a Run call on
\* the instance while IsRunning() is false is not refused, and it installs a
\* new server, starts its startServer goroutine and makes IsRunning() true;
\* whatever the number of Run/Shutdown cycles before.
C4_Restart ==
    [][/\ (ev'[1] = "ShutdownFinish" /\ ev'[3] = NoError) => ~IsRunning'
       /\ \A r \in Runs :
            (ev'[1] = "Run" /\ ev'[2] = r /\ ~IsRunning) =>
                (ev'[3] = "" /\ pc'[r] = "install")
       /\ \A r \in Runs :
            (ev'[1] = "RunInstall" /\ ev'[2] = r) =>
                /\ IsRunning'
                /\ httpServer' = NewServer(r)
                /\ ~inShutdown'[NewServer(r)]
                /\ bpc'[r] = "start"
                /\ pc'[r] = "select"]_vars

\* A Run call has just installed a server after two cycles of Run and a
\* Shutdown returning nil.
C4_Witness ==
    /\ cycles >= 2
    /\ ev[1] = "RunInstall"
    /\ IsRunning

\* C5: once the instance is Stopped again, whatever stopped it, the Run call
\* that is still blocked in its select returns (or the process has ended by a
\* panic).
C5_RunReturnsOnceStopped ==
    \A r \in Runs : (pc[r] = "select" /\ ~IsRunning) ~> (pc[r] = "idle" \/ Crashed)

\* C6: a stop signal reaches the stop channel of every Run call blocked in
\* select; the Run call that receives it calls Shutdown (which goes on to the
\* drain when the instance is Running), returns what Shutdown returns, nil
\* exactly when the drain was clean, and the instance is Stopped when it
\* returns.
C6_SignalShutdown ==
    [][/\ ev'[1] = "Signal" =>
            /\ ev'[3] \in stopSignals
            /\ \A r \in Runs : pc[r] = "select" => stop'[r]
       /\ \A r \in Runs :
            /\ (ev'[1] = "Shutdown" /\ ev'[2] = r) =>
                   /\ pc[r] = "select" /\ stop[r]
                   /\ IF IsRunning
                        THEN pc'[r] = "sd_drain" /\ ev'[3] = ""
                        ELSE pc'[r] = "idle" /\ ev'[3] = ErrServerStopped
            /\ (pc[r] = "sd_wait" /\ pc'[r] # "sd_wait") =>
                   /\ ev'[1] = "ShutdownFinish" /\ ev'[2] = r
                   /\ ev'[3] = IF busy[target[r]] THEN ErrDeadlineExceeded
                                                  ELSE NoError
                   /\ pc'[r] = "idle"
            /\ (pc[r] \in {"select", "sd_wait"} /\ pc'[r] = "idle"
                  /\ ev'[1] # "RunErr") => ~IsRunning']_vars

\* A Run call has just returned nil from the Shutdown a signal made it call.
C6_Witness ==
    /\ ev[1] = "ShutdownFinish"
    /\ ev[2] \in Runs
    /\ ev[3] = NoError
    /\ ~IsRunning

\* C7: when the bind of startServer fails, s.httpServer is reset (Stopped)
\* and the error is offered once on errChan; the Run call that receives it
\* returns the listen-failure error; startServer does not listen again.
C7_ListenFailure ==
    [][\A r \in Runs :
         /\ (ev'[1] = "startServer" /\ ev'[2] = r /\ ev'[3] = ErrListenFailure) =>
                /\ ~IsRunning'
                /\ bpc'[r] = "sending"
                /\ bsrv' = bsrv
         /\ (ev'[1] = "RunErr" /\ ev'[2] = r) =>
                /\ bpc[r] = "sending"
                /\ ev'[3] = ErrListenFailure
                /\ pc'[r] = "idle"
                /\ bpc'[r] = "none"
         /\ (bpc[r] = "sending" /\ bpc'[r] \notin {"sending", "none"}) =>
                (ev'[1] = "RunInstall" /\ ev'[2] = r)]_vars

\* A Run call has just returned the listen failure and the instance is
\* Stopped.
C7_Witness ==
    /\ ev[1] = "RunErr"
    /\ ev[3] = ErrListenFailure
    /\ ~IsRunning

\* C8: Shutdown calls on a Running server (by a signal or explicit) do not
\* race destructively: while one is in progress no second one passes the
\* guard, and no two of them drain the same server.
C8_NoDestructiveRace ==
    /\ Cardinality({t \in Threads : pc[t] \in {"sd_drain", "sd_wait"}}) <= 1
    /\ \A t, u \in Threads :
         (t # u /\ pc[t] = "sd_wait" /\ pc[u] = "sd_wait") => target[t] # target[u]

\* C9: when the drain of a Shutdown call completes the instance is Stopped
\* in every case; Shutdown returns nil after a clean drain and the deadline
\* error after a timeout, and it does not drain again.
C9_StoppedAfterDrain ==
    [][\A t \in Threads :
         (ev'[1] = "ShutdownFinish" /\ ev'[2] = t) =>
             /\ pc[t] = "sd_wait"
             /\ pc'[t] = "idle"
             /\ ~IsRunning'
             /\ ev'[3] = IF busy[target[t]] THEN ErrDeadlineExceeded ELSE NoError
             /\ inShutdown' = inShutdown]_vars

\* A Shutdown call has just returned the deadline error and the instance is
\* Stopped.
C9_Witness ==
    /\ ev[1] = "ShutdownFinish"
    /\ ev[3] = ErrDeadlineExceeded
    /\ ~IsRunning

\* C10: the response of a health request is "not ok" with status 500 exactly
\* when some check returned OK = false, and "ok" with status 200 otherwise,
\* whatever the Status strings of the checks and the interleaving.
C10_OverallStatus ==
    hpc = "done" =>
        LET failing == \E i \in 1..Len(metrics) : ~metrics[i].OK
        IN  /\ failing => (resStatus = "not ok" /\ code = StatusInternalServerError)
            /\ ~failing => (resStatus = "ok" /\ code = StatusOK)

\* A response "not ok" for two checks, one failing with a Status of its own
\* and one passing with the Status "not ok".
C10_Witness ==
    /\ hpc = "done"
    /\ Len(metrics) >= 2
    /\ code = StatusInternalServerError
    /\ \E i, j \in 1..Len(metrics) :
         /\ ~metrics[i].OK /\ metrics[i].Status = "awesome"
         /\ metrics[j].OK /\ metrics[j].Status = "not ok"

\* C11: the entry stored in res.Metrics for a check has the Status "ok" when
\* the check returned OK = true with no Status, "not ok" when it returned
\* OK = false with no Status, and the Status the check gave otherwise,
\* whatever its OK; OK and Info are stored as the check returned them.
C11_NormalizedEntries ==
    LET Stored(m) ==
            [OK     |-> m.OK,
             Status |-> IF m.Status # "" THEN m.Status
                        ELSE IF m.OK THEN "ok" ELSE "not ok",
             Info   |-> m.Info]
        From(n) == {i \in 1..Len(metrics) : metrics[i].Name = n /\ tpc[i] = "done"}
    IN  \A n \in Names :
            /\ resMetrics[n] # NoEntry =>
                   \E i \in From(n) : resMetrics[n] = Stored(metrics[i])
            /\ From(n) # {} => resMetrics[n] # NoEntry

\* The response holds a failing check's own Status and Info next to a passing
\* check's default "ok".
C11_Witness ==
    /\ hpc = "done"
    /\ Len(metrics) = 2
    /\ metrics[1] = [Name |-> "db", OK |-> FALSE, Status |-> "awesome", Info |-> "info"]
    /\ metrics[2] = [Name |-> "cache", OK |-> TRUE, Status |-> "", Info |-> "nil"]
    /\ resMetrics["db"] = [OK |-> FALSE, Status |-> "awesome", Info |-> "info"]
    /\ resMetrics["cache"] = [OK |-> TRUE, Status |-> "ok", Info |-> "nil"]

\* C12: a health request with zero checks, the collection being nil or
\* empty, starts no check goroutine, stores no entry in res.Metrics and
\* answers "ok" with status 200.
C12_ZeroChecks ==
    Len(metrics) = 0 =>
        /\ launched = 0
        /\ \A i \in Checks : tpc[i] = "none"
        /\ \A n \in Names : resMetrics[n] = NoEntry
        /\ hpc = "done" => (resStatus = "ok" /\ code = StatusOK)

\* The response "ok" for a collection that is present and empty.
C12_Witness ==
    /\ hpc = "done"
    /\ ~metricsNil
    /\ Len(metrics) = 0
    /\ resStatus = "ok"
    /\ code = StatusOK

\* C13: when several checks are registered under one name, the entry of
\* res.Metrics under that name in the response is the result of the one
\* registered last.
C13_LaterDuplicateWins ==
    hpc = "done" =>
        \A i \in 1..Len(metrics) :
            (\A j \in 1..Len(metrics) : j > i => metrics[j].Name # metrics[i].Name) =>
                resMetrics[metrics[i].Name] =
                    Normalize([OK |-> metrics[i].OK, Status |-> metrics[i].Status,
                               Info |-> metrics[i].Info])

\* C14: when the options of New hold a contextPath, whatever their order,
\* every route of the Server, the built-in ones included, is registered with
\* the router and recorded in the route list at the context path without its
\* trailing "/" followed by the route's own path.
C14_PrefixEverywhere ==
    LET ctx == {i \in 1..Len(opts) : opts[i].name = optionContextPath}
        given == opts[CHOOSE i \in ctx : TRUE].value
        prefix == IF Len(given) > 0 /\ given[Len(given)] = "/"
                    THEN SubSeq(given, 1, Len(given) - 1)
                    ELSE given
        paths == {RoutesPath, ReadinessPath, LivenessPath, InfoPath} \cup FacadePaths
    IN  (npc = "ready" /\ Cardinality(ctx) = 1) =>
            /\ \A k \in 1..Len(routes) : routes[k].Path \in {prefix \o p : p \in paths}
            /\ router = {<<routes[k].Method, routes[k].Path>> : k \in 1..Len(routes)}

\* C15: after New with at most one appEnv option, the routes endpoint is
\* registered and the PanicHandler is nil exactly when that appEnv is "dev"
\* or "test"; with any other appEnv or none the routes endpoint is not
\* registered and the PanicHandler is set; readiness, liveness and info are
\* registered in every case.
C15_RoutesIffDevOrTest ==
    LET envs == {i \in 1..Len(opts) : opts[i].name = optionAppEnv}
        dev == \E i \in envs : opts[i].value \in {<<"dev">>, <<"test">>}
        Has(path) ==
            \E e \in router :
                /\ e[1] = "GET"
                /\ Len(e[2]) >= Len(path)
                /\ SubSeq(e[2], Len(e[2]) - Len(path) + 1, Len(e[2])) = path
    IN  (npc = "ready" /\ Cardinality(envs) <= 1) =>
            /\ Has(RoutesPath) <=> dev
            /\ panicHandler <=> ~dev
            /\ Has(ReadinessPath)
            /\ Has(LivenessPath)
            /\ Has(InfoPath)

\* New("/api/", "test") has returned with the routes endpoint registered
\* and no PanicHandler.
C15_Witness ==
    /\ npc = "ready"
    /\ opts = <<OptionContextPath(<<"/", "api", "/">>), OptionAppEnv(<<"test">>)>>
    /\ <<"GET", <<"/", "api">> \o RoutesPath>> \in router
    /\ ~panicHandler

\* C16: the handler InfoHandler(nil) returns answers a request with status
\* 200 and does not fail.
C16_NilInfoAnswers ==
    (infoNil /\ ipc \notin {"start", "range", "loop"}) =>
        (ipc = "done" /\ icode = StatusOK)

\* C17: the response of a health request is composed only after every check
\* goroutine has finished its callback, its update of isOk and its write to
\* res.Metrics, and when every callback returns the response is eventually
\* written.
C17_ResponseAfterJoin ==
    /\ [](hpc \in {"respond", "done"} =>
            \A i \in 1..Len(metrics) : tpc[i] = "done")
    /\ <>(hpc = "done")

\* C18: no two check goroutines of one health request are writing the same
\* key of res.Metrics at the same time.
C18_NoKeyCollision ==
    \A i, j \in 1..Len(metrics) :
        (i # j /\ tpc[i] = "storing" /\ tpc[j] = "storing") =>
            metrics[i].Name # metrics[j].Name

\* C19: the overall status of the response, decided by the shared isOk, is
\* "not ok" exactly when some entry of the res.Metrics returned has
\* OK = false.
C19_FlagEqualsReduction ==
    hpc = "done" =>
        (resStatus = "not ok" <=>
            \E n \in Names : resMetrics[n] # NoEntry /\ ~resMetrics[n].OK)

\* C20: whenever IsRunning() is true and the server is not being shut down,
\* a startServer goroutine has bound the listener of the current server and
\* is serving it.
C20_RunningOnlyWhenBound ==
    (IsRunning /\ ~inShutdown[httpServer]) =>
        \E r \in Runs : Listening(r) /\ bsrv[r] = httpServer

\* C21: when a Shutdown call returns, after a clean drain or after the
\* deadline, no request of the server it shut down is still in flight.
C21_HardDeadline ==
    [][\A t \in Threads :
         (ev'[1] = "ShutdownFinish" /\ ev'[2] = t) => ~busy'[target[t]]]_vars

\* C22: whenever the instance is Stopped no startServer goroutine holds an
\* open listener, and a startServer goroutine serves only the server its own
\* Run call created, never the one of a later Run.
C22_NoStaleListener ==
    /\ ~IsRunning => \A r \in Runs : ~Listening(r)
    /\ \A r \in Runs : bpc[r] = "serving" => bsrv[r] = NewServer(r)

\* C23: a startServer goroutine never finds s.httpServer nil when it reads
\* the address and starts listening, whatever Shutdown does meanwhile.
C23_NeverReadsNil ==
    \A r \in Runs : bpc[r] # "panic"

\* C25: after any number of Run/Shutdown cycles the router has been attached
\* to the middleware chain exactly once.
C25_RouterAttachedOnce ==
    cycles >= 1 => uses = 1

\* C24: while checks are registered during a health request, the number of
\* check goroutines the request starts is the count its WaitGroup was armed
\* with: the counter never goes below zero and wg.Wait() returns only when
\* every goroutine started has finished.
C24_JoinConsistent ==
    /\ \A i \in Checks : tpc[i] # "panic"
    /\ hpc = "launch" =>
           ranged = wg + Cardinality({i \in Checks : tpc[i] = "done"})
    /\ hpc \in {"respond", "done"} =>
           \A i \in Checks : tpc[i] \in {"none", "done"}

====
